---- MODULE Spec2Model ----
(***************************************************************************)
(* The todo API of flask-todo-cicd: the route handlers of app/routes.py    *)
(* and the error handlers of app/__init__.py, run one request at a time    *)
(* against the todos table (Spec), and DELETE requests whose two store     *)
(* steps interleave (ConcurrentSpec).  app/models.py (the Todo entity and  *)
(* its to_dict) is not among the sources; the definitions that stand for   *)
(* it follow the data model of the specification and say so.               *)
(***************************************************************************)
EXTENDS Integers, Sequences, FiniteSets, TLC

(* ------------------------------ bounds --------------------------------- *)
\* successful POSTs explored in one run
MaxCreates == 2

(* ------------------------------ inputs --------------------------------- *)
Absent == "<absent>"
Empty == [k \in {} |-> 0]
Opt(key, vals) == {Empty} \cup {[k \in {key} |-> v] : v \in vals}

TitleValues == {"", "A"}
DescriptionValues == {"d"}
\* keys a caller may send although the handlers do not read them; the two
\* timestamps come as to_dict renders them
ExtraKeys == [id |-> 7, created_at |-> [iso |-> 1], updated_at |-> [iso |-> 0]]

\* the JSON objects a request body can hold
Objects ==
    {t @@ d @@ c : t \in Opt("title", TitleValues),
                   d \in Opt("description", DescriptionValues),
                   c \in Opt("completed", BOOLEAN)}
        \cup {o @@ ExtraKeys :
                 o \in {[title |-> "A"],
                        [title |-> "A", description |-> "d", completed |-> TRUE]}}

\* a body is a JSON object, text sent as JSON that does not parse, or a body
\* that is not sent as JSON at all (form data)
Bodies ==
    {[kind |-> "object", data |-> o] : o \in Objects}
        \cup {[kind |-> "malformed", data |-> Empty], [kind |-> "form", data |-> Empty]}

\* the readings the clock gives, in order: two todos can be stamped with the
\* same reading or with different ones
Instants == {0, 1}

\* ids a path can name: every id the store can assign, and one it never assigns
TodoIds == 1..(MaxCreates + 1)

(* ---------------------------- exceptions ------------------------------- *)
NoException == [cls |-> "none", code |-> 0, text |-> ""]
BadRequest ==
    [cls |-> "BadRequest", code |-> 400, text |-> "Failed to decode JSON object: Expecting value"]
UnsupportedMediaType ==
    [cls |-> "UnsupportedMediaType", code |-> 415,
     text |-> "Did not attempt to load JSON data because the request Content-Type was not 'application/json'."]
NotFound == [cls |-> "NotFound", code |-> 404, text |-> "The requested URL was not found on the server."]
MethodNotAllowed ==
    [cls |-> "MethodNotAllowed", code |-> 405, text |-> "The method is not allowed for the requested URL."]
TypeError == [cls |-> "TypeError", code |-> 0, text |-> "argument of type 'NoneType' is not iterable"]
SQLAlchemyError ==
    [cls |-> "SQLAlchemyError", code |-> 0,
     text |-> "(psycopg2.OperationalError) server closed the connection unexpectedly"]

(* ----------------------------- responses ------------------------------- *)
Response(status, success, error, message, data, count) ==
    [status |-> status, shape |-> "envelope", success |-> success, error |-> error,
     message |-> message, data |-> data, count |-> count,
     health |-> Absent, database |-> Absent]

Failure(status, error) == Response(status, FALSE, error, Absent, <<>>, -1)

(* --------------------------- state ------------------------------------- *)
VARIABLES
    table,     \* the committed rows of the todos table: id -> row
    seq,       \* the last id the store has assigned
    now,       \* the clock the store stamps rows with
    ids,       \* history: the ids of the created todos, in order of creation
    deleted,   \* history: the ids whose DELETE answered 200
    ndeleted,  \* history: the number of DELETEs that answered 200
    deleting   \* the DELETE requests handled side by side: request -> its progress

vars == <<table, seq, now, ids, deleted, ndeleted, deleting>>

(* ------------------- app/models.py: the Todo entity -------------------- *)
\* app/models.py is not among the sources: the definitions of this section
\* follow sections 3 and 4.1 of the specification and what the tests observe.
\* datetime.isoformat(): the text to_dict renders a timestamp as
isoformat(t) == [iso |-> t]

\* Todo.to_dict(): the plain record a response carries
to_dict(todo) ==
    [id |-> todo.id, title |-> todo.title, description |-> todo.description,
     completed |-> todo.completed,
     created_at |-> isoformat(todo.created_at), updated_at |-> isoformat(todo.updated_at)]

\* faulty variant of AssignId: one more than the largest id in the table, which
\* gives the id of a deleted newest row out again
AssignIdReusing(tbl, sq) ==
    IF DOMAIN tbl = {} THEN 1
    ELSE (CHOOSE m \in DOMAIN tbl : \A i \in DOMAIN tbl : i <= m) + 1

\* the id the store gives a new row: the next value of its sequence, whatever
\* rows the table holds now
AssignId(tbl, sq) == sq + 1

\* the row an INSERT of a new Todo writes: the column defaults fill both
\* timestamps, and completed when the constructor was given none
Insert(todo, id, t) ==
    [id |-> id, title |-> todo.title, description |-> todo.description,
     completed |-> IF "completed" \in DOMAIN todo THEN todo.completed ELSE FALSE,
     created_at |-> t, updated_at |-> t]

\* the rows an UPDATE may write for a todo whose attributes were assigned:
\* updated_at is refreshed; when no attribute changed value the store may
\* write nothing at all
Touch(old, new, t) ==
    IF new # old THEN {[new EXCEPT !.updated_at = t]}
    ELSE {old, [old EXCEPT !.updated_at = t]}

(* -------------------------- the session -------------------------------- *)
\* faulty variant of QueryGet: falls back to some stored row
QueryGetAny(tbl, id) ==
    IF id \in DOMAIN tbl THEN <<tbl[id]>>
    ELSE IF DOMAIN tbl = {} THEN <<>>
    ELSE <<tbl[CHOOSE i \in DOMAIN tbl : TRUE]>>

\* Todo.query.get(id): the row of that primary key, if there is one
QueryGet(tbl, id) == IF id \in DOMAIN tbl THEN <<tbl[id]>> ELSE <<>>

\* db.session.add(todo), flushed
session_add(rows, row) == [i \in DOMAIN rows \cup {row.id} |-> IF i = row.id THEN row ELSE rows[i]]

\* faulty variant of session_delete: the row stays
session_delete_soft(rows, todo) == rows

\* db.session.delete(todo), flushed
session_delete(rows, todo) == [i \in DOMAIN rows \ {todo.id} |-> rows[i]]

\* faulty variant of rollback: the session keeps its uncommitted rows
rollback_nothing(tbl, rows) == rows

\* db.session.rollback(): the session goes back to the committed rows
rollback(tbl, rows) == tbl

Session(rows, rolled_back) == [rows |-> rows, rolled_back |-> rolled_back]

\* what a handler leaves behind: the committed rows, the store's sequence, the
\* response, the exception raised on the way and the session
Outcome(tbl, sq, r, e, s) == [table |-> tbl, seq |-> sq, resp |-> r, exc |-> e, session |-> s]

(* ------------------- app/__init__.py: error handlers ------------------- *)
not_found(error) == Failure(404, "Resource not found")

internal_error(error) == Failure(500, "Internal server error")

\* faulty variant of handle_exception: sends str(error)
handle_exception_leaky(error) == Failure(500, error.text)

handle_exception(error) == Failure(500, "Internal server error")

\* the handler Flask picks among the three registered ones: the one for the
\* exception's HTTP code if there is one, else the one for Exception
find_error_handler(e) ==
    IF e.code = 404 THEN "not_found"
    ELSE IF e.code = 500 THEN "internal_error"
    ELSE "handle_exception"

\* an exception no route handler caught, raised while the session held rows
handle_user_exception(tbl, sq, rows, e) ==
    LET h == find_error_handler(e) IN
    IF h = "not_found" THEN Outcome(tbl, sq, not_found(e), e, Session(rows, FALSE))
    ELSE IF h = "internal_error" THEN Outcome(tbl, sq, internal_error(e), e, Session(rows, FALSE))
    ELSE Outcome(tbl, sq, handle_exception(e), e, Session(rollback(tbl, rows), TRUE))

(* ----------------------- app/routes.py: helpers ------------------------ *)
\* request.get_json(): the parsed object; BadRequest for text that does not
\* parse; for a body not sent as JSON, None or UnsupportedMediaType (which of
\* the two depends on the Flask release installed)
get_json(body) ==
    CASE body.kind = "object" -> {[tag |-> "value", data |-> body.data, exc |-> NoException]}
      [] body.kind = "malformed" -> {[tag |-> "raise", data |-> Empty, exc |-> BadRequest]}
      [] OTHER -> {[tag |-> "none", data |-> Empty, exc |-> NoException],
                   [tag |-> "raise", data |-> Empty, exc |-> UnsupportedMediaType]}

\* dict.get(key, default)
Get(data, key, default) == IF key \in DOMAIN data THEN data[key] ELSE default

\* faulty variant of title_missing: `not data or 'title' not in data`
title_missing_key_only(j) == j.tag = "none" \/ "title" \notin DOMAIN j.data

\* `not data or not data.get('title')`
title_missing(j) ==
    \/ j.tag = "none"
    \/ DOMAIN j.data = {}
    \/ Get(j.data, "title", "") = ""

\* faulty variant of Todo: the description defaults to the title
TodoNoDefault(data) == [title |-> data.title, description |-> Get(data, "description", data.title)]

\* faulty variant of Todo: the constructor is also given the body's completed
TodoWithCompleted(data) ==
    [k \in {"title", "description"} \cup (DOMAIN data \cap {"completed"}) |->
        IF k = "description" THEN Get(data, "description", "") ELSE data[k]]

\* Todo(title=data['title'], description=data.get('description', ''))
Todo(data) == [title |-> data.title, description |-> Get(data, "description", "")]

\* faulty variant of assign_fields: a key the body lacks resets its field
assign_fields_all(todo, data) ==
    [todo EXCEPT !.title = Get(data, "title", ""),
                 !.description = Get(data, "description", ""),
                 !.completed = Get(data, "completed", FALSE)]

\* faulty variant of assign_fields: a body that holds completed flips the flag
assign_fields_toggle(todo, data) ==
    [todo EXCEPT !.title = IF "title" \in DOMAIN data THEN data.title ELSE @,
                 !.description = IF "description" \in DOMAIN data THEN data.description ELSE @,
                 !.completed = IF "completed" \in DOMAIN data THEN ~@ ELSE @]

\* faulty variant of assign_fields: every key of the body that names a column
\* is assigned
assign_fields_every_key(todo, data) ==
    [k \in DOMAIN todo |->
        IF k \notin DOMAIN data THEN todo[k]
        ELSE IF k \in {"created_at", "updated_at"} THEN data[k].iso
        ELSE data[k]]

\* the three conditional assignments of update_todo
assign_fields(todo, data) ==
    [todo EXCEPT !.title = IF "title" \in DOMAIN data THEN data.title ELSE @,
                 !.description = IF "description" \in DOMAIN data THEN data.description ELSE @,
                 !.completed = IF "completed" \in DOMAIN data THEN data.completed ELSE @]

\* .all(): s lists every row of the table once
IsOrdering(tbl, s) ==
    /\ \A i, j \in DOMAIN s : i # j => s[i] # s[j]
    /\ {s[i] : i \in DOMAIN s} = DOMAIN tbl

\* faulty variant of order_by_created_at_desc: oldest first
order_by_created_at_asc(tbl) ==
    {[i \in DOMAIN s |-> tbl[s[i]]] :
        s \in {s \in [1..Cardinality(DOMAIN tbl) -> DOMAIN tbl] :
                /\ IsOrdering(tbl, s)
                /\ \A i, j \in DOMAIN s : i < j => tbl[s[i]].created_at <= tbl[s[j]].created_at}}

\* Todo.query.order_by(Todo.created_at.desc()).all(): the rows, newest
\* created_at first; rows of equal created_at come in an order the store picks
order_by_created_at_desc(tbl) ==
    {[i \in DOMAIN s |-> tbl[s[i]]] :
        s \in {s \in [1..Cardinality(DOMAIN tbl) -> DOMAIN tbl] :
                /\ IsOrdering(tbl, s)
                /\ \A i, j \in DOMAIN s : i < j => tbl[s[i]].created_at >= tbl[s[j]].created_at}}

(* ----------------------- app/routes.py: handlers ----------------------- *)
\* Each handler is the set of outcomes it can have on the committed rows tbl:
\* one per result of get_json, per answer of the store, and per failure of the
\* store call the handler guards with try/except.
Unchanged(tbl, sq, r) == Outcome(tbl, sq, r, NoException, Session(tbl, FALSE))

index(tbl, sq) ==
    {Unchanged(tbl, sq, [Response(200, TRUE, Absent, "Flask Todo API", <<>>, -1) EXCEPT !.shape = "index"])}

\* faulty variant of health_check: the except branch reports healthy as well
health_check_always_healthy(tbl, sq) ==
    {Outcome(tbl, sq,
             [Response(200, TRUE, Absent, Absent, <<>>, -1) EXCEPT
                 !.shape = "health", !.health = "healthy", !.database = "connected"],
             e, Session(tbl, FALSE)) : e \in {NoException, SQLAlchemyError}}

\* db.session.execute(db.text('SELECT 1')) answers or raises
health_check(tbl, sq) ==
    {Unchanged(tbl, sq, [Response(200, TRUE, Absent, Absent, <<>>, -1) EXCEPT
                            !.shape = "health", !.health = "healthy", !.database = "connected"]),
     Outcome(tbl, sq,
             [Response(503, FALSE, "Database connection failed", Absent, <<>>, -1) EXCEPT
                 !.shape = "health", !.health = "unhealthy", !.database = "disconnected"],
             SQLAlchemyError, Session(tbl, FALSE))}

get_todos(tbl, sq) ==
    {Unchanged(tbl, sq, Response(200, TRUE, Absent, Absent,
                                 [i \in DOMAIN todos |-> to_dict(todos[i])], Len(todos))) :
        todos \in order_by_created_at_desc(tbl)}
    \cup {Outcome(tbl, sq, Failure(500, "Database error occurred"), SQLAlchemyError,
                  Session(tbl, FALSE))}

get_todo(tbl, sq, todo_id) ==
    LET todo == QueryGet(tbl, todo_id) IN
    IF Len(todo) = 0 THEN {Unchanged(tbl, sq, Failure(404, "Todo not found"))}
    ELSE {Unchanged(tbl, sq, Response(200, TRUE, Absent, Absent, <<to_dict(todo[1])>>, -1))}

create_todo(tbl, sq, t, body) ==
    UNION {
        IF j.tag = "raise" THEN {handle_user_exception(tbl, sq, tbl, j.exc)}
        ELSE IF title_missing(j) THEN {Unchanged(tbl, sq, Failure(400, "Title is required"))}
        ELSE LET todo == Todo(j.data)
                 id == AssignId(tbl, sq)
                 rows == session_add(tbl, Insert(todo, id, t))
             IN {Outcome(rows, id,
                         Response(201, TRUE, Absent, "Todo created successfully",
                                  <<to_dict(rows[id])>>, -1),
                         NoException, Session(rows, FALSE)),
                 Outcome(tbl, sq, Failure(500, "Failed to create todo"), SQLAlchemyError,
                         Session(rollback(tbl, rows), TRUE))}
        : j \in get_json(body)}

update_todo(tbl, sq, t, todo_id, body) ==
    LET found == QueryGet(tbl, todo_id) IN
    IF Len(found) = 0 THEN {Unchanged(tbl, sq, Failure(404, "Todo not found"))}
    ELSE UNION {
        IF j.tag = "raise" THEN {handle_user_exception(tbl, sq, tbl, j.exc)}
        ELSE IF j.tag = "none" THEN {handle_user_exception(tbl, sq, tbl, TypeError)}
        ELSE LET todo == found[1] IN
             UNION {
                LET rows == [tbl EXCEPT ![todo.id] = new] IN
                {Outcome(rows, sq,
                         Response(200, TRUE, Absent, "Todo updated successfully",
                                  <<to_dict(rows[todo.id])>>, -1),
                         NoException, Session(rows, FALSE)),
                 Outcome(tbl, sq, Failure(500, "Failed to update todo"), SQLAlchemyError,
                         Session(rollback(tbl, rows), TRUE))}
                : new \in Touch(todo, assign_fields(todo, j.data), t)}
        : j \in get_json(body)}

delete_todo(tbl, sq, todo_id) ==
    LET found == QueryGet(tbl, todo_id) IN
    IF Len(found) = 0 THEN {Unchanged(tbl, sq, Failure(404, "Todo not found"))}
    ELSE LET rows == session_delete(tbl, found[1]) IN
         {Outcome(rows, sq, Response(200, TRUE, Absent, "Todo deleted successfully", <<>>, -1),
                  NoException, Session(rows, FALSE)),
          Outcome(tbl, sq, Failure(500, "Failed to delete todo"), SQLAlchemyError,
                  Session(rollback(tbl, rows), TRUE))}

(* ------------------------------ requests ------------------------------- *)
\* one request handled from arrival to response: what the handler committed
\* becomes the state (the response and the request's session end with the
\* request), and the history variables record what the request did
\* the DELETE requests that can be in flight side by side
Requests == {1, 2}

\* a request slot before its request arrives
Idle == [pc |-> "idle", todo_id |-> 0, existed |-> FALSE, todo |-> <<>>, status |-> 0]

Handle(op, id, o) ==
    /\ table' = o.table
    /\ seq' = o.seq
    /\ ids' = IF op = "create_todo" /\ o.resp.status = 201
              THEN Append(ids, o.resp.data[1].id) ELSE ids
    /\ deleted' = IF op = "delete_todo" /\ o.resp.status = 200
                  THEN deleted \cup {id} ELSE deleted
    /\ ndeleted' = IF op = "delete_todo" /\ o.resp.status = 200
                   THEN ndeleted + 1 ELSE ndeleted
    /\ UNCHANGED <<now, deleting>>

Init ==
    /\ table = Empty
    /\ seq = 0
    /\ now = 0
    /\ ids = <<>>
    /\ deleted = {}
    /\ ndeleted = 0
    /\ deleting = [w \in Requests |-> Idle]

\* time passes between two requests
Tick ==
    /\ \E t \in Instants : t > now /\ now' = t
    /\ UNCHANGED <<table, seq, ids, deleted, ndeleted, deleting>>

GetIndex == \E o \in index(table, seq) : Handle("index", 0, o)

GetHealth == \E o \in health_check(table, seq) : Handle("health_check", 0, o)

GetTodos == \E o \in get_todos(table, seq) : Handle("get_todos", 0, o)

GetTodo ==
    \E todo_id \in TodoIds : \E o \in get_todo(table, seq, todo_id) :
        Handle("get_todo", todo_id, o)

PostTodo ==
    \E body \in Bodies : \E o \in create_todo(table, seq, now, body) :
        /\ o.resp.status = 201 => Len(ids) < MaxCreates
        /\ Handle("create_todo", 0, o)

PutTodo ==
    \E todo_id \in TodoIds, body \in Bodies : \E o \in update_todo(table, seq, now, todo_id, body) :
        Handle("update_todo", todo_id, o)

DeleteTodo ==
    \E todo_id \in TodoIds : \E o \in delete_todo(table, seq, todo_id) :
        Handle("delete_todo", todo_id, o)

\* a path no route matches: routing raises NotFound
NoRoute == Handle("no_route", 0, handle_user_exception(table, seq, table, NotFound))

\* a method the matched route does not accept (PUT /api/todos): routing raises
\* MethodNotAllowed
WrongMethod ==
    Handle("wrong_method", 0, handle_user_exception(table, seq, table, MethodNotAllowed))

Next ==
    \/ Tick
    \/ GetIndex
    \/ GetHealth
    \/ GetTodos
    \/ GetTodo
    \/ PostTodo
    \/ PutTodo
    \/ DeleteTodo
    \/ NoRoute
    \/ WrongMethod

Spec == Init /\ [][Next]_vars

(* ---------------- DELETE requests handled side by side ----------------- *)
\* delete_todo takes two steps against the store, the lookup and the
\* delete-and-commit; requests served by different workers take them in any
\* order. Each request has a session of its own.
Progress(w, pc, todo, status) ==
    [deleting EXCEPT ![w] = [@ EXCEPT !.pc = pc, !.todo = todo, !.status = status]]

\* DELETE /api/todos/<todo_id> reaches a worker
DeleteArrives(w) ==
    /\ deleting[w].pc = "idle"
    /\ \E todo_id \in TodoIds :
          deleting' = [deleting EXCEPT ![w] =
                          [Idle EXCEPT !.pc = "lookup", !.todo_id = todo_id,
                                       !.existed = (todo_id \in DOMAIN table)]]
    /\ UNCHANGED <<table, seq, now, ids, deleted, ndeleted>>

\* todo = Todo.query.get(todo_id), and the 404 when there is none
DeleteLookup(w) ==
    /\ deleting[w].pc = "lookup"
    /\ LET found == QueryGet(table, deleting[w].todo_id) IN
       deleting' = IF Len(found) = 0 THEN Progress(w, "done", <<>>, 404)
                   ELSE Progress(w, "found", found, 0)
    /\ UNCHANGED <<table, seq, now, ids, deleted, ndeleted>>

\* db.session.delete(todo) and db.session.commit(): the commit goes through,
\* also when another request has removed the row since the lookup (the DELETE
\* statement then matches no row), or it raises and the handler rolls back
DeleteCommit(w) ==
    /\ deleting[w].pc = "found"
    /\ LET todo == deleting[w].todo[1]
           rows == session_delete(table, todo)
       IN \E e \in {NoException, SQLAlchemyError} :
             LET status == IF e = NoException THEN 200 ELSE 500 IN
             /\ table' = IF e = NoException THEN rows ELSE rollback(table, rows)
             /\ deleting' = Progress(w, "done", deleting[w].todo, status)
             /\ deleted' = IF status = 200 THEN deleted \cup {todo.id} ELSE deleted
             /\ ndeleted' = IF status = 200 THEN ndeleted + 1 ELSE ndeleted
    /\ UNCHANGED <<seq, now, ids>>

ConcurrentNext ==
    \/ PostTodo
    \/ \E w \in Requests : DeleteArrives(w)
    \/ \E w \in Requests : DeleteLookup(w)
    \/ \E w \in Requests : DeleteCommit(w)

ConcurrentSpec == Init /\ [][ConcurrentNext]_vars

(* ======================= properties of the handlers ==================== *)
\* The properties below are state predicates: in every reachable state they
\* quantify over the requests that can arrive next and over every outcome the
\* handler can have on them.
ObjectBodies == {b \in Bodies : b.kind = "object"}

OthersKept(tbl, after, id) ==
    \A i \in DOMAIN tbl \ {id} : i \in DOMAIN after /\ after[i] = tbl[i]

\* every outcome a request for one todo can have
OnTodo(todo_id) ==
    get_todo(table, seq, todo_id)
        \cup delete_todo(table, seq, todo_id)
        \cup UNION {update_todo(table, seq, now, todo_id, body) : body \in Bodies}

(* ------------------------------- C1 ------------------------------------ *)
TitlelessBodies == {b \in ObjectBodies : Get(b.data, "title", "") = ""}

\* C1: a POST whose JSON object has no title, or an empty one (the empty
\* object included), answers 400 success:false "Title is required", and the
\* stored todos are the same after it as before.
C1_TitleRequired ==
    \A body \in TitlelessBodies : \A o \in create_todo(table, seq, now, body) :
        /\ o.resp.status = 400
        /\ o.resp.success = FALSE
        /\ o.resp.error = "Title is required"
        /\ o.table = table
        /\ o.seq = seq

\* todos are stored, and a POST with "title": "" is refused
C1_Witness ==
    /\ DOMAIN table # {}
    /\ \E body \in TitlelessBodies :
        /\ "title" \in DOMAIN body.data
        /\ \E o \in create_todo(table, seq, now, body) : o.resp.status = 400 /\ o.table = table

(* ------------------------------- C2 ------------------------------------ *)
\* C2: a PUT that answers 200 replaces each of title, description and
\* completed that its body holds by the body's value, keeps each of the three
\* that the body does not hold, keeps the todo's id and created_at (also when
\* the body carries id and created_at keys), and changes no other todo.
C2_PartialUpdate ==
    \A todo_id \in DOMAIN table : \A body \in ObjectBodies :
        \A o \in update_todo(table, seq, now, todo_id, body) :
            o.resp.status = 200 =>
                /\ DOMAIN o.table = DOMAIN table
                /\ LET old == table[todo_id]
                       new == o.table[todo_id]
                       data == body.data
                   IN /\ new.title = Get(data, "title", old.title)
                      /\ new.description = Get(data, "description", old.description)
                      /\ new.completed = Get(data, "completed", old.completed)
                      /\ new.id = old.id
                      /\ new.created_at = old.created_at
                /\ OthersKept(table, o.table, todo_id)

\* two todos are stored, one of them with a description and completed, and a
\* PUT that carries only a title (and id and created_at keys) answers 200
C2_Witness ==
    /\ Cardinality(DOMAIN table) = 2
    /\ \E todo_id \in DOMAIN table :
        /\ table[todo_id].description = "d"
        /\ table[todo_id].completed
        /\ table[todo_id].created_at < now
        /\ \E o \in update_todo(table, seq, now, todo_id,
                                [kind |-> "object", data |-> [title |-> "A"] @@ ExtraKeys]) :
              o.resp.status = 200

(* ------------------------------- C3 ------------------------------------ *)
\* C3: after N creates and M deletes that succeeded, whatever updates and
\* reads came between, GET /api/todos, whenever the store answers its query,
\* answers 200 with exactly N - M items, count equal to the number of items,
\* and the items in descending order of created_at.
C3_ListAll ==
    \A o \in get_todos(table, seq) :
        o.exc = NoException =>
            /\ o.resp.status = 200
            /\ o.resp.success
            /\ Len(o.resp.data) = Len(ids) - ndeleted
            /\ o.resp.count = Len(o.resp.data)
            /\ \A i, j \in DOMAIN o.resp.data :
                  i < j => o.resp.data[i].created_at.iso >= o.resp.data[j].created_at.iso
            /\ o.table = table

\* two todos created at different instants are stored, the older one updated
\* since, and they are listed the newer first
C3_Witness ==
    /\ Len(ids) = 2
    /\ DOMAIN table = {1, 2}
    /\ table[1].created_at < table[2].created_at
    /\ table[1].updated_at >= table[2].created_at
    /\ \E o \in get_todos(table, seq) : o.resp.status = 200 /\ o.resp.data[1].id = 2

(* ------------------------------- C4 ------------------------------------ *)
\* C4: GET, PUT (whatever its body) and DELETE for an id that has no stored
\* todo answer 404 success:false, whatever came before, and leave the stored
\* todos as they were.
C4_NotFound ==
    \A todo_id \in TodoIds \ DOMAIN table : \A o \in OnTodo(todo_id) :
        /\ o.resp.status = 404
        /\ o.resp.success = FALSE
        /\ o.table = table

\* after a create and a delete, with a todo still stored, a PUT with a body
\* that does not parse, for an id that has no todo, answers 404
C4_Witness ==
    /\ DOMAIN table # {}
    /\ deleted # {}
    /\ \E todo_id \in TodoIds \ DOMAIN table :
        \E o \in update_todo(table, seq, now, todo_id, [kind |-> "malformed", data |-> Empty]) :
            o.resp.status = 404

(* ------------------------------- C5 ------------------------------------ *)
\* C5: a DELETE for a stored todo, when the store carries it out, answers 200
\* and removes the row; from then on every GET, PUT and DELETE for that id
\* answers 404, a second DELETE included.
C5_DeleteOnce ==
    /\ \A todo_id \in DOMAIN table : \A o \in delete_todo(table, seq, todo_id) :
          o.exc = NoException =>
              /\ o.resp.status = 200
              /\ todo_id \notin DOMAIN o.table
              /\ OthersKept(table, o.table, todo_id)
    /\ \A todo_id \in deleted : \A o \in OnTodo(todo_id) : o.resp.status = 404

\* an id was deleted, a todo created after it is stored, and a second DELETE
\* for the deleted id answers 404
C5_Witness ==
    /\ \E todo_id \in deleted :
        /\ \E later \in DOMAIN table : later > todo_id
        /\ \E o \in delete_todo(table, seq, todo_id) : o.resp.status = 404

(* ------------------------------- C6 ------------------------------------ *)
\* every outcome a create, an update or a delete can have
OnWrite ==
    UNION {create_todo(table, seq, now, body) : body \in Bodies}
        \cup UNION {update_todo(table, seq, now, todo_id, body) :
                        todo_id \in TodoIds, body \in Bodies}
        \cup UNION {delete_todo(table, seq, todo_id) : todo_id \in TodoIds}

\* C6: when the commit of a create, an update or a delete fails with a storage
\* error, the handler has rolled the session back when it responds (the
\* session holds the committed rows again), it answers 500 success:false, and
\* the committed rows are those from before the request.
C6_RollbackOnFailure ==
    \A o \in OnWrite :
        o.exc = SQLAlchemyError =>
            /\ o.session.rolled_back
            /\ o.session.rows = table
            /\ o.resp.status = 500
            /\ o.resp.success = FALSE
            /\ o.table = table

\* a todo is stored, and an update that would change it and a delete of it
\* both fail at commit
C6_Witness ==
    \E todo_id \in DOMAIN table :
        /\ table[todo_id].completed = FALSE
        /\ \E o \in update_todo(table, seq, now, todo_id,
                                [kind |-> "object", data |-> [completed |-> TRUE]]) :
              o.exc = SQLAlchemyError /\ o.resp.status = 500
        /\ \E o \in delete_todo(table, seq, todo_id) :
              o.exc = SQLAlchemyError /\ o.resp.status = 500

(* ------------------------------- C7 ------------------------------------ *)
\* C7: a POST with a non-empty title that answers 201 returns a todo with that
\* title, with the given description or "" when none is given, and with
\* completed false; a GET for the returned id made next answers 200 with the
\* very record the POST returned.
C7_CreateThenGet ==
    \A body \in ObjectBodies \ TitlelessBodies : \A o \in create_todo(table, seq, now, body) :
        o.resp.status = 201 =>
            /\ Len(o.resp.data) = 1
            /\ o.resp.data[1].title = body.data.title
            /\ o.resp.data[1].description = Get(body.data, "description", "")
            /\ o.resp.data[1].completed = FALSE
            /\ \A g \in get_todo(o.table, o.seq, o.resp.data[1].id) :
                  g.resp.status = 200 /\ g.resp.data = o.resp.data

\* a todo created without a description is stored, and a GET for the id its
\* POST returned answers 200 with description ""
C7_Witness ==
    /\ Len(ids) >= 1
    /\ \E g \in get_todo(table, seq, ids[Len(ids)]) :
          /\ g.resp.status = 200
          /\ g.resp.data[1].description = ""
          /\ g.resp.data[1].completed = FALSE
          /\ g.resp.data[1].created_at = g.resp.data[1].updated_at
    /\ \E o \in create_todo(table, seq, now, [kind |-> "object", data |-> [title |-> "A"]]) :
          o.resp.status = 201

(* ------------------------------- C8 ------------------------------------ *)
UnreadableBodies == {b \in Bodies : b.kind \in {"malformed", "form"}}

\* C8: a POST whose body cannot be read as a JSON object (text that does not
\* parse, or a body not sent as JSON) answers 400 with a success:false
\* envelope, and creates no row.
C8_UnreadableBodyIs400 ==
    \A body \in UnreadableBodies : \A o \in create_todo(table, seq, now, body) :
        /\ o.resp.status = 400
        /\ o.resp.shape = "envelope"
        /\ o.resp.success = FALSE
        /\ o.table = table

(* ------------------------------- C9 ------------------------------------ *)
\* the error texts the handlers and the error handlers can send
ErrorMessages ==
    {"Title is required", "Todo not found", "Database error occurred",
     "Failed to create todo", "Failed to update todo", "Failed to delete todo",
     "Resource not found", "Internal server error"}

NoRouteOutcome == handle_user_exception(table, seq, table, NotFound)

WrongMethodOutcome == handle_user_exception(table, seq, table, MethodNotAllowed)

\* every outcome of every request that is not for /api/health
NotHealth ==
    index(table, seq) \cup get_todos(table, seq) \cup OnWrite
        \cup UNION {get_todo(table, seq, todo_id) : todo_id \in TodoIds}
        \cup {NoRouteOutcome, WrongMethodOutcome}

\* the exceptions of the model that no route handler catches
Uncaught(e) == e.cls \in {"BadRequest", "UnsupportedMediaType", "TypeError", "MethodNotAllowed"}

\* C9: every response outside 200..299 of a route other than /api/health is
\* an envelope with success:false and an error text from a fixed set, never
\* the text of the exception behind it; a path no route matches answers 404
\* "Resource not found"; an exception no handler catches answers 500
\* "Internal server error" after the session is rolled back.
C9_ErrorEnvelope ==
    /\ \A o \in NotHealth :
          /\ o.resp.status \notin 200..299 =>
                /\ o.resp.shape = "envelope"
                /\ o.resp.success = FALSE
                /\ o.resp.error \in ErrorMessages
                /\ o.resp.error # o.exc.text
          /\ Uncaught(o.exc) =>
                /\ o.resp.status = 500
                /\ o.resp.error = "Internal server error"
                /\ o.session.rolled_back
                /\ o.session.rows = o.table
    /\ NoRouteOutcome.resp.status = 404
    /\ NoRouteOutcome.resp.error = "Resource not found"

\* a todo is stored and a PUT for it with a body that does not parse ends in
\* the catch-all handler
C9_Witness ==
    \E todo_id \in DOMAIN table :
        \E o \in update_todo(table, seq, now, todo_id, [kind |-> "malformed", data |-> Empty]) :
            o.exc = BadRequest /\ o.resp.status = 500

(* ------------------------------- C10 ----------------------------------- *)
\* C10: the id of a newly created todo differs from the id of every todo
\* created before it, those deleted since included.
C10_IdsNeverReused ==
    /\ \A i, j \in DOMAIN ids : i # j => ids[i] # ids[j]
    /\ \A body \in ObjectBodies : \A o \in create_todo(table, seq, now, body) :
          o.resp.status = 201 => \A i \in DOMAIN ids : o.resp.data[1].id # ids[i]

\* the newest todo was deleted, an older one is stored, and a POST succeeds
C10_Witness ==
    /\ Len(ids) >= 2
    /\ ids[Len(ids)] \in deleted
    /\ DOMAIN table # {}
    /\ \E o \in create_todo(table, seq, now, [kind |-> "object", data |-> [title |-> "A"]]) :
          o.resp.status = 201

(* ------------------------------- C11 ----------------------------------- *)
\* the instants at which a request that follows one made now can be stamped
Later == {t \in Instants : t >= now}

\* the same rows, their updated_at left aside
SameButUpdatedAt(a, b) ==
    /\ DOMAIN a = DOMAIN b
    /\ \A i \in DOMAIN a : [a[i] EXCEPT !.updated_at = 0] = [b[i] EXCEPT !.updated_at = 0]

\* a GET, PUT or DELETE that the store carried out, made a second time right
\* after, leaves rows that are Same as those the first left
Retried(Same(_, _)) ==
    /\ \A o1 \in get_todos(table, seq) : \A o2 \in get_todos(o1.table, o1.seq) :
          Same(o1.table, o2.table) /\ Same(table, o1.table)
    /\ \A todo_id \in TodoIds :
          /\ \A o1 \in get_todo(table, seq, todo_id) :
                \A o2 \in get_todo(o1.table, o1.seq, todo_id) :
                    Same(o1.table, o2.table) /\ Same(table, o1.table)
          /\ \A o1 \in delete_todo(table, seq, todo_id) :
                o1.exc # SQLAlchemyError =>
                    \A o2 \in delete_todo(o1.table, o1.seq, todo_id) : Same(o1.table, o2.table)
          /\ \A body \in Bodies : \A o1 \in update_todo(table, seq, now, todo_id, body) :
                o1.exc # SQLAlchemyError =>
                    \A t \in Later : \A o2 \in update_todo(o1.table, o1.seq, t, todo_id, body) :
                        Same(o1.table, o2.table)

\* each POST that answers 201 adds one row, under an id no stored row has, and
\* keeps the rows there were
PostAddsOne ==
    \A body \in Bodies : \A o \in create_todo(table, seq, now, body) :
        o.resp.status = 201 =>
            LET id == o.resp.data[1].id IN
            /\ id \notin DOMAIN table
            /\ DOMAIN o.table = DOMAIN table \cup {id}
            /\ OthersKept(table, o.table, id)

StampsKept(tbl, after) ==
    \A i \in DOMAIN tbl \cap DOMAIN after :
        /\ after[i].created_at = tbl[i].created_at
        /\ after[i].updated_at >= tbl[i].updated_at
        /\ after[i].created_at <= after[i].updated_at

\* C12: every stored todo has created_at <= updated_at; a create, an update
\* or a delete leaves the created_at of every todo it keeps as it was and its
\* updated_at no smaller, and a PUT that answers 200 leaves the todo it names
\* with the created_at it had and with updated_at greater than or equal to
\* the one it had.
C12_TimestampsOrdered ==
    /\ \A i \in DOMAIN table : table[i].created_at <= table[i].updated_at
    /\ \A body \in Bodies : \A o \in create_todo(table, seq, now, body) :
          StampsKept(table, o.table)
    /\ \A todo_id \in TodoIds : \A o \in delete_todo(table, seq, todo_id) :
          StampsKept(table, o.table)
    /\ \A todo_id \in TodoIds : \A body \in Bodies :
          \A o \in update_todo(table, seq, now, todo_id, body) :
              /\ StampsKept(table, o.table)
              /\ o.resp.status = 200 =>
                    /\ todo_id \in DOMAIN o.table
                    /\ o.table[todo_id].created_at = table[todo_id].created_at
                    /\ o.table[todo_id].updated_at >= table[todo_id].updated_at

\* a todo created at an earlier instant was updated at a later one, and a PUT
\* that carries created_at and updated_at keys answers 200 for it
C12_Witness ==
    \E todo_id \in DOMAIN table :
        /\ table[todo_id].created_at < table[todo_id].updated_at
        /\ \E o \in update_todo(table, seq, now, todo_id,
                                [kind |-> "object", data |-> [title |-> "A"] @@ ExtraKeys]) :
              /\ o.resp.status = 200
              /\ o.table[todo_id].created_at < o.table[todo_id].updated_at

(* ------------------------------- C13 ----------------------------------- *)
\* the bodies of the POST and PUT requests made after a health request: one
\* that creates, one that updates, one that is refused and one that does not
\* parse
FollowUpBodies ==
    {b \in Bodies : \/ b.kind = "malformed"
                    \/ b.kind = "object" /\ b.data \in {Empty, [title |-> "A"],
                                                         [completed |-> TRUE]}}

\* every other endpoint has on the rows after the outcomes it has on the
\* stored rows
SameAfter(after, sq) ==
    /\ index(after, sq) = index(table, seq)
    /\ get_todos(after, sq) = get_todos(table, seq)
    /\ \A todo_id \in TodoIds :
          /\ get_todo(after, sq, todo_id) = get_todo(table, seq, todo_id)
          /\ delete_todo(after, sq, todo_id) = delete_todo(table, seq, todo_id)
          /\ \A body \in FollowUpBodies :
                update_todo(after, sq, now, todo_id, body)
                    = update_todo(table, seq, now, todo_id, body)
    /\ \A body \in FollowUpBodies :
          create_todo(after, sq, now, body) = create_todo(table, seq, now, body)

\* C13: GET /api/health answers 200 {status: healthy, database: connected}
\* when its SELECT 1 succeeds and 503 {status: unhealthy, database:
\* disconnected, error} when it raises; either way the stored todos and the id
\* sequence are as before, and every other endpoint called next has the
\* outcomes it would have had without the health request.
C13_HealthReadsOnly ==
    \A o \in health_check(table, seq) :
        /\ o.resp.shape = "health"
        /\ o.exc = NoException =>
              /\ o.resp.status = 200
              /\ o.resp.health = "healthy"
              /\ o.resp.database = "connected"
              /\ o.resp.error = Absent
        /\ o.exc # NoException =>
              /\ o.resp.status = 503
              /\ o.resp.health = "unhealthy"
              /\ o.resp.database = "disconnected"
              /\ o.resp.error # Absent
        /\ o.table = table
        /\ o.seq = seq
        /\ SameAfter(o.table, o.seq)

\* todos are stored and one was deleted; the health request can answer 200,
\* and can answer 503 when the query raises
C13_Witness ==
    /\ DOMAIN table # {}
    /\ deleted # {}
    /\ \E o \in health_check(table, seq) : o.exc = NoException /\ o.resp.status = 200
    /\ \E o \in health_check(table, seq) : o.exc = SQLAlchemyError /\ o.resp.status = 503

(* ------------------------------- C14 ----------------------------------- *)
\* C14: every stored todo has a non-empty title, and no PUT whose body sets
\* title to the empty string answers 200 and stores it.
C14_TitleNeverEmpty ==
    /\ \A i \in DOMAIN table : table[i].title # ""
    /\ \A todo_id \in DOMAIN table : \A body \in TitlelessBodies :
          "title" \in DOMAIN body.data =>
              \A o \in update_todo(table, seq, now, todo_id, body) :
                  /\ o.resp.status # 200
                  /\ o.table[todo_id].title # ""

(* ------------------------------- C15 ----------------------------------- *)
\* the body with only its title and description keys
TitleAndDescription(body) ==
    [kind |-> "object",
     data |-> [k \in DOMAIN body.data \cap {"title", "description"} |-> body.data[k]]]

\* C15: a POST has the outcomes of the POST whose body holds only the title
\* and description keys of its body: completed, id, created_at and updated_at
\* keys are ignored, so a POST that answers 201 returns and stores a todo with
\* completed false, under the id the store assigns, stamped with the store's
\* clock.
C15_OnlyTitleAndDescription ==
    \A body \in ObjectBodies :
        /\ create_todo(table, seq, now, body)
              = create_todo(table, seq, now, TitleAndDescription(body))
        /\ \A o \in create_todo(table, seq, now, body) :
              o.resp.status = 201 =>
                  LET id == o.resp.data[1].id IN
                  /\ id = AssignId(table, seq)
                  /\ id \notin DOMAIN table
                  /\ o.resp.data[1].completed = FALSE
                  /\ o.table[id].completed = FALSE
                  /\ o.table[id].created_at = now
                  /\ o.table[id].updated_at = now

\* at an instant other than the body's created_at, with a todo stored, a POST
\* whose body carries completed true, an id and both timestamps answers 201
\* with completed false and another id
C15_Witness ==
    /\ DOMAIN table # {}
    /\ now # ExtraKeys.created_at.iso
    /\ \E o \in create_todo(table, seq, now,
                            [kind |-> "object",
                             data |-> [title |-> "A", description |-> "d", completed |-> TRUE]
                                          @@ ExtraKeys]) :
          /\ o.resp.status = 201
          /\ o.resp.data[1].completed = FALSE
          /\ o.resp.data[1].id # ExtraKeys.id

(* ------------------------------- C16 ----------------------------------- *)
\* C16: when two DELETE requests for the same id, stored when each of them
\* arrived, have both answered, the row is removed (unless the commits of both
\* failed), each answered 200, 404 or 500, and they did not both answer 200.
C16_AtMostOneDelete200 ==
    \A v, w \in Requests :
        (/\ v # w
         /\ deleting[v].pc = "done" /\ deleting[w].pc = "done"
         /\ deleting[v].todo_id = deleting[w].todo_id
         /\ deleting[v].existed /\ deleting[w].existed)
        => /\ \/ deleting[v].todo_id \notin DOMAIN table
              \/ deleting[v].status = 500 /\ deleting[w].status = 500
           /\ deleting[v].status \in {200, 404, 500}
           /\ ~(deleting[v].status = 200 /\ deleting[w].status = 200)

====
